---- MODULE Spec2Model ----
(***************************************************************************)
(* App Pass SDK (src/src/index.ts): checkStatus, checkAppPass and          *)
(* activateAppPass as a state machine.  Every action is the settlement of  *)
(* one awaited host call (permissions.contains, permissions.request,       *)
(* fetch, response.json, the backoff timer, tabs.create), or the           *)
(* resumption of a caller from await checkStatus(), followed by the        *)
(* synchronous code that runs up to the next await.  The host calls and    *)
(* the server are the environment: their outcomes are drawn with \E.       *)
(***************************************************************************)
EXTENDS Integers, Sequences, FiniteSets, TLC

VARIABLES
    extId,      \* chrome.runtime.id, a sequence of characters
    op,         \* op[c]: the public operation invocation c runs
    pc,         \* pc[c]: the await invocation c is suspended at; cs_returned
                \* and cs_threw: at await checkStatus(), which has settled
    attempt,    \* attempt[c]: the loop counter of checkStatus
    response,   \* response[c]: the response in scope in the loop body
    data,       \* data[c]: the value of response.json() in scope
    res,        \* res[c]: the value checkStatus returned to its caller
    result,     \* result[c]: the value the public operation returned
    outcome,    \* outcome[c]: "pending", "returned" or "threw"
    trace       \* trace[c]: the host calls of invocation c, in order

vars == <<extId, op, pc, attempt, response, data, res, result, outcome, trace>>

----------------------------------------------------------------------------
(* Program constants *)

urlBase == "http://localhost:8080"
maxAttempts == 3
BackoffMs == 1000

(* Bounds of the model *)

MaxIdLen == 2

(* The inputs: identifiers of the extension, invocations, HTTP codes *)

IdChars == {"a", "/"}
ExtIds == UNION {[1..n -> IdChars] : n \in 1..MaxIdLen}
Calls == {"c1"}
HttpCodes == {200, 404, 500}

----------------------------------------------------------------------------
(* JSON values as the server can send them and as JavaScript reads them *)

Undefined == [t |-> "undefined", v |-> ""]
JNull == [t |-> "null", v |-> ""]
Str(s) == [t |-> "string", v |-> s]
Num(s) == [t |-> "number", v |-> s]

StatusEnum == {"ok", "no_perm", "no_apppass", "ext_inactive", "err", "unknown_error"}

StatusValues ==
    {Undefined, JNull, Num("0"), Str(""), Str("banana")}
        \cup {Str(s) : s \in StatusEnum}
MessageValues == {Undefined, Str("m")}
EmailValues == {Undefined, Str("a@b.com")}
TokenValues == {Undefined, Str("T")}

(* A response body: text that is not JSON, the JSON texts null and 5, or a *)
(* JSON object with any of the four members.                               *)
NonObject(k) ==
    [kind |-> k, status |-> Undefined, message |-> Undefined,
     email |-> Undefined, appPassToken |-> Undefined]
Bodies ==
    {NonObject("invalid"), NonObject("null"), NonObject("number")}
        \cup [kind : {"object"}, status : StatusValues, message : MessageValues,
              email : EmailValues, appPassToken : TokenValues]

(* JavaScript truthiness of a JSON value, as used by || *)
Truthy(x) ==
    CASE x.t = "undefined" -> FALSE
      [] x.t = "null" -> FALSE
      [] x.t = "number" -> x.v # "0"
      [] x.t = "string" -> x.v # ""

(* response.json() rejects when the body is not JSON text *)
JsonThrows(body) == body.kind = "invalid"

(* reading a property of null raises a TypeError *)
PropThrows(d) == d.kind = "null"

(* d.f for a parsed value d that is not null *)
Get(d, f) == IF d.kind = "object" THEN d[f] ELSE Undefined

----------------------------------------------------------------------------
(* The decisions and values of the source *)

NoPermResult ==
    [status |-> Str("no_perm"), message |-> Str("Permission denied")]

ErrResult ==
    [status |-> Str("err"), message |-> Str("Failed to connect to server")]

(* checkAppPass: if (!hasPermission) *)
CapDenied_Never(r) == FALSE
CapDenied(r) == r # "true"

(* checkStatus: if (!hasPermission) *)
CsDenied_Never(r) == FALSE
CsDenied(r) == r # "true"

(* activateAppPass: if (granted) *)
AapGranted_Always(r) == TRUE
AapGranted(r) == r = "true"

(* response.ok *)
ResponseOk_With4xx(resp) == resp.code >= 200 /\ resp.code <= 499
ResponseOk(resp) == resp.code >= 200 /\ resp.code <= 299

(* for (...; attempt <= maxAttempts; ...) *)
LoopContinues_OneMore(a) == a <= maxAttempts + 1
LoopContinues(a) == a <= maxAttempts

(* if (attempt < maxAttempts) before the backoff *)
ShouldWait_Always(a) == a <= maxAttempts
ShouldWait(a) == a < maxAttempts

(* the object literal returned on a success-range response *)
MakeResult_NoEmail(d) ==
    [status |-> IF Truthy(Get(d, "status")) THEN Get(d, "status")
                ELSE Str("unknown_error"),
     message |-> Get(d, "message"),
     email |-> Undefined,
     appPassToken |-> Get(d, "appPassToken")]
MakeResult(d) ==
    [status |-> IF Truthy(Get(d, "status")) THEN Get(d, "status")
                ELSE Str("unknown_error"),
     message |-> Get(d, "message"),
     email |-> Get(d, "email"),
     appPassToken |-> Get(d, "appPassToken")]

(* encodeURIComponent on the characters of the model: unreserved *)
(* characters are kept, every other character becomes %XX        *)
EncodeChar(ch) ==
    CASE ch = "/" -> "%2F"
      [] ch = "%" -> "%25"
      [] OTHER -> ch
EncodeURIComponent(s) == [i \in 1..Len(s) |-> EncodeChar(s[i])]

StatusUrl == <<urlBase, "/api/check-app-pass">>
Origin == <<urlBase, "/">>

ActivationUrl_Raw(id) == <<urlBase, "/apppass/add/">> \o id
ActivationUrl(id) == <<urlBase, "/apppass/add/">> \o EncodeURIComponent(id)

----------------------------------------------------------------------------
(* The record of host calls *)

Issue(tr, e, u, h, m) ==
    Append(tr, [ev |-> e, url |-> u, hdr |-> h, ms |-> m, ret |-> "pending",
                code |-> 0])
Settle(tr, r) == [tr EXCEPT ![Len(tr)].ret = r]
(* fetch resolves with a response: its status code is recorded *)
SettleResponse(tr, r, o) == [tr EXCEPT ![Len(tr)].ret = r, ![Len(tr)].code = o.code]

PermOutcomes == {"true", "false", "throw"}
TabOutcomes == {"ok", "throw"}

NoResponse == [kind |-> "none", code |-> 0, body |-> NonObject("invalid")]
FetchThrow == [kind |-> "throw", code |-> 0, body |-> NonObject("invalid")]
FetchOutcomes ==
    {FetchThrow} \cup [kind : {"response"}, code : HttpCodes, body : Bodies]

NoData == NonObject("none")
NoResult == [status |-> Undefined]

----------------------------------------------------------------------------
Init ==
    /\ extId \in ExtIds
    /\ op = [c \in Calls |-> "none"]
    /\ pc = [c \in Calls |-> "idle"]
    /\ attempt = [c \in Calls |-> 0]
    /\ response = [c \in Calls |-> NoResponse]
    /\ data = [c \in Calls |-> NoData]
    /\ res = [c \in Calls |-> NoResult]
    /\ result = [c \in Calls |-> NoResult]
    /\ outcome = [c \in Calls |-> "pending"]
    /\ trace = [c \in Calls |-> <<>>]

(* the public operation returns r *)
Return(c, r, tr) ==
    /\ pc' = [pc EXCEPT ![c] = "done"]
    /\ result' = [result EXCEPT ![c] = r]
    /\ outcome' = [outcome EXCEPT ![c] = "returned"]
    /\ trace' = [trace EXCEPT ![c] = tr]

(* an exception leaves the public operation *)
Throw(c, tr) ==
    /\ pc' = [pc EXCEPT ![c] = "done"]
    /\ outcome' = [outcome EXCEPT ![c] = "threw"]
    /\ trace' = [trace EXCEPT ![c] = tr]
    /\ UNCHANGED result

(* checkStatus is entered: it awaits permissions.contains *)
EnterCheckStatus(c, tr) ==
    /\ pc' = [pc EXCEPT ![c] = "cs_contains"]
    /\ trace' = [trace EXCEPT ![c] = Issue(tr, "permissions.contains", Origin, <<>>, 0)]
    /\ UNCHANGED <<result, outcome>>

(* checkStatus returns r: its promise is fulfilled, and the caller,     *)
(* suspended at await checkStatus(), is resumed by a later microtask    *)
CheckStatusReturns(c, r, tr) ==
    /\ res' = [res EXCEPT ![c] = r]
    /\ pc' = [pc EXCEPT ![c] = "cs_returned"]
    /\ trace' = [trace EXCEPT ![c] = tr]
    /\ UNCHANGED <<result, outcome>>

(* an exception leaves checkStatus: its promise is rejected, and the    *)
(* caller is resumed by a later microtask                               *)
CheckStatusThrows(c, tr) ==
    /\ pc' = [pc EXCEPT ![c] = "cs_threw"]
    /\ trace' = [trace EXCEPT ![c] = tr]
    /\ UNCHANGED <<res, result, outcome>>

(* the for loop tests attempt <= maxAttempts with attempt = a: the body *)
(* starts by calling fetch, or the loop ends and checkStatus returns   *)
(* the err result                                                      *)
LoopTest_SharedCounter(c, a, tr) ==
    /\ attempt' = [d \in DOMAIN attempt |-> a]
    /\ IF LoopContinues(a)
       THEN /\ pc' = [pc EXCEPT ![c] = "cs_fetch"]
            /\ trace' = [trace EXCEPT ![c] = Issue(tr, "fetch", StatusUrl, extId, 0)]
            /\ UNCHANGED <<res, result, outcome>>
       ELSE CheckStatusReturns(c, ErrResult, tr)
LoopTest(c, a, tr) ==
    /\ attempt' = [attempt EXCEPT ![c] = a]
    /\ IF LoopContinues(a)
       THEN /\ pc' = [pc EXCEPT ![c] = "cs_fetch"]
            /\ trace' = [trace EXCEPT ![c] = Issue(tr, "fetch", StatusUrl, extId, 0)]
            /\ UNCHANGED <<res, result, outcome>>
       ELSE CheckStatusReturns(c, ErrResult, tr)

(* the attempt was not terminal: response and data leave scope; the   *)
(* timer is set when attempt < maxAttempts, else attempt++ follows at  *)
(* once                                                                *)
AttemptFailed(c, tr) ==
    /\ response' = [response EXCEPT ![c] = NoResponse]
    /\ data' = [data EXCEPT ![c] = NoData]
    /\ IF ShouldWait(attempt[c])
       THEN /\ pc' = [pc EXCEPT ![c] = "cs_timer"]
            /\ trace' = [trace EXCEPT ![c] =
                   Issue(tr, "setTimeout", <<>>, <<>>, BackoffMs)]
            /\ UNCHANGED <<attempt, res, result, outcome>>
       ELSE LoopTest(c, attempt[c] + 1, tr)

----------------------------------------------------------------------------
(* The public operations are called *)

CallCheckAppPass(c) ==
    /\ pc[c] = "idle"
    /\ op' = [op EXCEPT ![c] = "checkAppPass"]
    /\ pc' = [pc EXCEPT ![c] = "cap_contains"]
    /\ trace' = [trace EXCEPT ![c] =
           Issue(trace[c], "permissions.contains", Origin, <<>>, 0)]
    /\ UNCHANGED <<extId, attempt, response, data, res, result, outcome>>

CallActivateAppPass(c) ==
    /\ pc[c] = "idle"
    /\ op' = [op EXCEPT ![c] = "activateAppPass"]
    /\ pc' = [pc EXCEPT ![c] = "aap_request"]
    /\ trace' = [trace EXCEPT ![c] =
           Issue(trace[c], "permissions.request", Origin, <<>>, 0)]
    /\ UNCHANGED <<extId, attempt, response, data, res, result, outcome>>

(* checkAppPass: permissions.contains settles *)
CapContains(c, r) ==
    /\ pc[c] = "cap_contains"
    /\ LET tr == Settle(trace[c], r) IN
       IF r = "throw" THEN Throw(c, tr)
       ELSE IF CapDenied(r) THEN Return(c, NoPermResult, tr)
       ELSE EnterCheckStatus(c, tr)
    /\ UNCHANGED <<extId, op, attempt, response, data, res>>

(* activateAppPass: permissions.request settles *)
AapRequest(c, r) ==
    /\ pc[c] = "aap_request"
    /\ LET tr == Settle(trace[c], r) IN
       IF r = "throw" THEN Throw(c, tr)
       ELSE IF AapGranted(r) THEN EnterCheckStatus(c, tr)
       ELSE Return(c, NoPermResult, tr)
    /\ UNCHANGED <<extId, op, attempt, response, data, res>>

(* checkStatus: permissions.contains settles *)
CsContains(c, r) ==
    /\ pc[c] = "cs_contains"
    /\ LET tr == Settle(trace[c], r) IN
       IF r = "throw"
       THEN CheckStatusThrows(c, tr) /\ UNCHANGED attempt
       ELSE IF CsDenied(r)
       THEN CheckStatusReturns(c, NoPermResult, tr) /\ UNCHANGED attempt
       ELSE LoopTest(c, 1, tr)
    /\ UNCHANGED <<extId, op, response, data>>

(* checkStatus: fetch settles *)
CsFetch(c, o) ==
    /\ pc[c] = "cs_fetch"
    /\ IF o.kind = "throw"
       THEN AttemptFailed(c, Settle(trace[c], "throw"))
       ELSE IF ResponseOk(o)
       THEN /\ response' = [response EXCEPT ![c] = o]
            /\ pc' = [pc EXCEPT ![c] = "cs_json"]
            /\ trace' = [trace EXCEPT ![c] =
                   Issue(SettleResponse(trace[c], "ok", o), "response.json",
                         <<>>, <<>>, 0)]
            /\ UNCHANGED <<attempt, data, res, result, outcome>>
       ELSE AttemptFailed(c, SettleResponse(trace[c], "not_ok", o))
    /\ UNCHANGED <<extId, op>>

(* checkStatus: response.json() settles *)
CsJson(c) ==
    /\ pc[c] = "cs_json"
    /\ LET body == response[c].body IN
       IF JsonThrows(body)
       THEN AttemptFailed(c, Settle(trace[c], "throw"))
       ELSE IF PropThrows(body)
       THEN AttemptFailed(c, Settle(trace[c], "null"))
       ELSE /\ data' = [data EXCEPT ![c] = body]
            /\ CheckStatusReturns(c, MakeResult(body), Settle(trace[c], "value"))
            /\ UNCHANGED <<attempt, response>>
    /\ UNCHANGED <<extId, op>>

(* checkStatus: the backoff timer fires, attempt++ and the loop goes on *)
CsTimer_NeverFires(c) ==
    /\ pc[c] = "cs_timer"
    /\ FALSE
    /\ UNCHANGED vars
CsTimer(c) ==
    /\ pc[c] = "cs_timer"
    /\ LoopTest(c, attempt[c] + 1, Settle(trace[c], "fired"))
    /\ UNCHANGED <<extId, op, response, data>>

(* checkAppPass resumes from await checkStatus(): it returns res, or the *)
(* exception of checkStatus leaves it                                   *)
CapResume_OpensTab(c) ==
    /\ op[c] = "checkAppPass"
    /\ pc[c] \in {"cs_returned", "cs_threw"}
    /\ pc' = [pc EXCEPT ![c] = "aap_tab"]
    /\ trace' = [trace EXCEPT ![c] =
           Issue(trace[c], "tabs.create", ActivationUrl(extId), <<>>, 0)]
    /\ UNCHANGED <<extId, op, attempt, response, data, res, result, outcome>>
CapResume(c) ==
    /\ op[c] = "checkAppPass"
    /\ pc[c] \in {"cs_returned", "cs_threw"}
    /\ IF pc[c] = "cs_threw"
       THEN Throw(c, trace[c])
       ELSE Return(c, res[c], trace[c])
    /\ UNCHANGED <<extId, op, attempt, response, data, res>>

(* activateAppPass resumes from await checkStatus(): it calls           *)
(* tabs.create and awaits it, or the exception of checkStatus leaves it *)
AapResume_NoTabOnNoPerm(c) ==
    /\ op[c] = "activateAppPass"
    /\ pc[c] \in {"cs_returned", "cs_threw"}
    /\ IF pc[c] = "cs_threw"
       THEN Throw(c, trace[c])
       ELSE IF res[c] = NoPermResult
       THEN Return(c, res[c], trace[c])
       ELSE /\ pc' = [pc EXCEPT ![c] = "aap_tab"]
            /\ trace' = [trace EXCEPT ![c] =
                   Issue(trace[c], "tabs.create", ActivationUrl(extId), <<>>, 0)]
            /\ UNCHANGED <<result, outcome>>
    /\ UNCHANGED <<extId, op, attempt, response, data, res>>
AapResume(c) ==
    /\ op[c] = "activateAppPass"
    /\ pc[c] \in {"cs_returned", "cs_threw"}
    /\ IF pc[c] = "cs_threw"
       THEN Throw(c, trace[c])
       ELSE /\ pc' = [pc EXCEPT ![c] = "aap_tab"]
            /\ trace' = [trace EXCEPT ![c] =
                   Issue(trace[c], "tabs.create", ActivationUrl(extId), <<>>, 0)]
            /\ UNCHANGED <<result, outcome>>
    /\ UNCHANGED <<extId, op, attempt, response, data, res>>

(* activateAppPass: tabs.create settles *)
AapTab(c, r) ==
    /\ pc[c] = "aap_tab"
    /\ IF r = "throw"
       THEN Throw(c, Settle(trace[c], r))
       ELSE Return(c, res[c], Settle(trace[c], r))
    /\ UNCHANGED <<extId, op, attempt, response, data, res>>

Next ==
    \E c \in Calls :
        \/ CallCheckAppPass(c)
        \/ CallActivateAppPass(c)
        \/ \E r \in PermOutcomes : CapContains(c, r)
        \/ \E r \in PermOutcomes : AapRequest(c, r)
        \/ \E r \in PermOutcomes : CsContains(c, r)
        \/ \E o \in FetchOutcomes : CsFetch(c, o)
        \/ CsJson(c)
        \/ CsTimer(c)
        \/ CapResume(c)
        \/ AapResume(c)
        \/ \E r \in TabOutcomes : AapTab(c, r)

Spec == Init /\ [][Next]_vars

(* Every awaited host call of an invocation eventually settles, and a  *)
(* caller whose awaited checkStatus() has settled is eventually resumed *)
Settles(c) ==
    \/ \E r \in PermOutcomes : CapContains(c, r)
    \/ \E r \in PermOutcomes : AapRequest(c, r)
    \/ \E r \in PermOutcomes : CsContains(c, r)
    \/ \E o \in FetchOutcomes : CsFetch(c, o)
    \/ CsJson(c)
    \/ CsTimer(c)
    \/ CapResume(c)
    \/ AapResume(c)
    \/ \E r \in TabOutcomes : AapTab(c, r)

(* Two invocations at once, on smaller sets of inputs *)

ConcCalls == {"c1", "c2"}
ConcExtIds == {<<"a", "/">>}
ConcBodies ==
    {NonObject("invalid"),
     [kind |-> "object", status |-> Str("ok"), message |-> Undefined,
      email |-> Str("a@b.com"), appPassToken |-> Str("T")],
     [kind |-> "object", status |-> Undefined, message |-> Str("m"),
      email |-> Undefined, appPassToken |-> Undefined]}
ConcFetchOutcomes ==
    {FetchThrow} \cup [kind : {"response"}, code : {200, 500}, body : ConcBodies]

ConcInit ==
    /\ extId \in ConcExtIds
    /\ op = [c \in ConcCalls |-> "none"]
    /\ pc = [c \in ConcCalls |-> "idle"]
    /\ attempt = [c \in ConcCalls |-> 0]
    /\ response = [c \in ConcCalls |-> NoResponse]
    /\ data = [c \in ConcCalls |-> NoData]
    /\ res = [c \in ConcCalls |-> NoResult]
    /\ result = [c \in ConcCalls |-> NoResult]
    /\ outcome = [c \in ConcCalls |-> "pending"]
    /\ trace = [c \in ConcCalls |-> <<>>]

ConcNext ==
    \E c \in ConcCalls :
        \/ CallCheckAppPass(c)
        \/ CallActivateAppPass(c)
        \/ \E r \in PermOutcomes : CapContains(c, r)
        \/ \E r \in PermOutcomes : AapRequest(c, r)
        \/ \E r \in PermOutcomes : CsContains(c, r)
        \/ \E o \in ConcFetchOutcomes : CsFetch(c, o)
        \/ CsJson(c)
        \/ CsTimer(c)
        \/ CapResume(c)
        \/ AapResume(c)
        \/ \E r \in TabOutcomes : AapTab(c, r)

ConcSpec == ConcInit /\ [][ConcNext]_vars

FairSpec == Init /\ [][Next]_vars /\ \A c \in Calls : WF_vars(Settles(c))

----------------------------------------------------------------------------
(* Reading the record of host calls *)

Idx(c, e) == {i \in 1..Len(trace[c]) : trace[c][i].ev = e}
Count(c, e) == Cardinality(Idx(c, e))
PermIdx(c) == Idx(c, "permissions.contains") \cup Idx(c, "permissions.request")
NthFetch(c, n) ==
    CHOOSE i \in Idx(c, "fetch") : Cardinality({j \in Idx(c, "fetch") : j <= i}) = n
NonTerminalRets == {"throw", "not_ok"}
EnumStatuses == {Str(s) : s \in StatusEnum}
Populated(r, f) == f \in DOMAIN r /\ r[f] # Undefined
BodyFields(d) ==
    [status |-> d.status, message |-> d.message,
     email |-> d.email, appPassToken |-> d.appPassToken]
ValidBody(d) == d.kind = "object" /\ d.status \in EnumStatuses

(* C1: every fetch of an invocation comes after a permission call of that *)
(* invocation that returned true, and never after one that returned false *)
C1_RequestOnlyAfterGrant ==
    \A c \in DOMAIN pc : \A i \in Idx(c, "fetch") :
        /\ \E j \in PermIdx(c) : j < i /\ trace[c][j].ret = "true"
        /\ \A j \in PermIdx(c) : j < i => trace[c][j].ret # "false"

C1_Witness ==
    \E c \in DOMAIN pc :
        /\ op[c] = "activateAppPass"
        /\ Count(c, "fetch") = 3
        /\ outcome[c] = "returned"

(* C2: when a permission check of checkAppPass returns false, the         *)
(* invocation makes no fetch and sets no timer, its result is {no_perm,   *)
(* Permission denied} (held by checkStatus until checkAppPass resumes),   *)
(* and once it has completed it has returned that result                  *)
C2_CheckDeniedShortCircuits ==
    \A c \in DOMAIN pc :
        (op[c] = "checkAppPass" /\ \E i \in PermIdx(c) : trace[c][i].ret = "false")
            => /\ Count(c, "fetch") = 0
               /\ Count(c, "setTimeout") = 0
               /\ IF pc[c] = "done"
                  THEN outcome[c] = "returned" /\ result[c] = NoPermResult
                  ELSE pc[c] = "cs_returned" /\ res[c] = NoPermResult

C2_Witness ==
    \E c \in DOMAIN pc :
        /\ op[c] = "checkAppPass"
        /\ trace[c][1].ret = "false"
        /\ outcome[c] = "returned"

(* C3: the status of every returned result is one of ok, no_perm,         *)
(* no_apppass, ext_inactive, err, unknown_error                           *)
C3_StatusEnumerated ==
    \A c \in DOMAIN pc :
        outcome[c] = "returned" => result[c].status \in EnumStatuses

(* C4: a returned result carries email or appPassToken only when its      *)
(* status is ok                                                           *)
C4_CredentialsOnlyWhenOk ==
    \A c \in DOMAIN pc :
        (outcome[c] = "returned" /\ result[c].status # Str("ok"))
            => ~Populated(result[c], "email") /\ ~Populated(result[c], "appPassToken")

(* C5: when the first k fetches (k in 0..2) failed by exception or by a   *)
(* non-success response and fetch k+1 got a success response with a valid *)
(* body, there are exactly k+1 fetches and k timers, one timer between    *)
(* each two consecutive fetches, and checkStatus returned the body's      *)
(* fields, which the public operation returns; checkAppPass is then       *)
(* resuming from the await or has returned                                *)
C5_Case(c, k) ==
    /\ Count(c, "fetch") >= k + 1
    /\ \A n \in 1..k : trace[c][NthFetch(c, n)].ret \in NonTerminalRets
    /\ trace[c][NthFetch(c, k + 1)].ret = "ok"
    /\ LET j == NthFetch(c, k + 1) + 1 IN
         /\ j <= Len(trace[c])
         /\ trace[c][j].ev = "response.json"
         /\ trace[c][j].ret = "value"
    /\ ValidBody(data[c])

C5_SuccessAfterFailures ==
    \A c \in DOMAIN pc : \A k \in 0..2 :
        C5_Case(c, k) =>
            /\ Count(c, "fetch") = k + 1
            /\ Count(c, "setTimeout") = k
            /\ \A n \in 1..k :
                   Cardinality({i \in Idx(c, "setTimeout") :
                       NthFetch(c, n) < i /\ i < NthFetch(c, n + 1)}) = 1
            /\ res[c] = BodyFields(data[c])
            /\ outcome[c] = "returned" => result[c] = BodyFields(data[c])
            /\ op[c] = "checkAppPass" =>
                 /\ pc[c] \in {"cs_returned", "done"}
                 /\ pc[c] = "done" => outcome[c] = "returned"

C5_Witness ==
    \E c \in DOMAIN pc :
        /\ C5_Case(c, 2)
        /\ outcome[c] = "returned"
        /\ result[c].email = Str("a@b.com")
        /\ result[c].appPassToken = Str("T")

(* C6: when the three fetches all failed by exception or by a non-success *)
(* response, there are exactly 3 fetches and 2 timers, no timer after the *)
(* third fetch, and checkStatus returned {err, Failed to connect to       *)
(* server}, which the public operation returns; checkAppPass is then      *)
(* resuming from the await or has returned                                *)
C6_Case(c) ==
    /\ Count(c, "fetch") >= 3
    /\ \A n \in 1..3 : trace[c][NthFetch(c, n)].ret \in NonTerminalRets

C6_ExhaustedGivesErr ==
    \A c \in DOMAIN pc :
        C6_Case(c) =>
            /\ Count(c, "fetch") = 3
            /\ Count(c, "setTimeout") = 2
            /\ \A i \in Idx(c, "setTimeout") : i < NthFetch(c, 3)
            /\ res[c] = ErrResult
            /\ outcome[c] = "returned" => result[c] = ErrResult
            /\ op[c] = "checkAppPass" =>
                 /\ pc[c] \in {"cs_returned", "done"}
                 /\ pc[c] = "done" => outcome[c] = "returned"

C6_Witness ==
    \E c \in DOMAIN pc :
        /\ C6_Case(c)
        /\ outcome[c] = "returned"
        /\ trace[c][NthFetch(c, 1)].ret = "throw"
        /\ trace[c][NthFetch(c, 3)].ret = "not_ok"

(* C7: no invocation ends by raising an error *)
C7_NoExceptionEscapes ==
    \A c \in DOMAIN pc : outcome[c] # "threw"

(* C8: when permissions.request of activateAppPass returns false, the     *)
(* invocation has returned {no_perm, Permission denied} and has opened no *)
(* tab, made no fetch and set no timer                                    *)
C8_ActivateDeclined ==
    \A c \in DOMAIN pc :
        (op[c] = "activateAppPass" /\ trace[c][1].ret = "false")
            => /\ outcome[c] = "returned"
               /\ result[c] = NoPermResult
               /\ Count(c, "tabs.create") = 0
               /\ Count(c, "fetch") = 0
               /\ Count(c, "setTimeout") = 0

C8_Witness ==
    \E c \in DOMAIN pc :
        /\ op[c] = "activateAppPass"
        /\ trace[c][1].ret = "false"
        /\ pc[c] = "done"

(* C9: when permissions.request returned true and the probe ended with a  *)
(* success response, activateAppPass, once resumed from the await of the  *)
(* probe, has called tabs.create exactly once (and not before), with the  *)
(* URL urlBase/apppass/add/<id> where <id> is made of unreserved          *)
(* characters and %XX escapes and decodes to chrome.runtime.id, and once  *)
(* tabs.create has resolved it has returned the fields of the body        *)
DecodeToken(t) ==
    CASE t = "%2F" -> "/"
      [] t = "%25" -> "%"
      [] OTHER -> t
SafeTokens == {"a", "%2F", "%25"}

C9_Case(c) ==
    /\ op[c] = "activateAppPass"
    /\ trace[c][1].ret = "true"
    /\ \E i \in Idx(c, "response.json") : trace[c][i].ret = "value"

C9_ActivateOpensOneTab ==
    \A c \in DOMAIN pc :
        C9_Case(c) =>
            /\ Count(c, "tabs.create") = (IF pc[c] = "cs_returned" THEN 0 ELSE 1)
            /\ \A i \in Idx(c, "tabs.create") :
                 LET u == trace[c][i].url IN
                   /\ Len(u) = 2 + Len(extId)
                   /\ u[1] = urlBase
                   /\ u[2] = "/apppass/add/"
                   /\ \A n \in 1..Len(extId) :
                        u[2 + n] \in SafeTokens /\ DecodeToken(u[2 + n]) = extId[n]
                   /\ trace[c][i].ret = "ok" =>
                        outcome[c] = "returned" /\ result[c] = res[c]
            /\ res[c] # NoResult
            /\ ValidBody(data[c]) => res[c] = BodyFields(data[c])
            /\ outcome[c] = "returned" => result[c] = res[c]

C9_Witness ==
    \E c \in DOMAIN pc :
        /\ C9_Case(c)
        /\ outcome[c] = "returned"
        /\ \E n \in 1..Len(extId) : extId[n] = "/"
        /\ result[c].status = Str("ok")

(* C10: once tabs.create has settled, by success or by failure, the       *)
(* caller of activateAppPass has received the result of the probe         *)
C10_ResultWhateverTabDoes ==
    \A c \in DOMAIN pc : \A i \in Idx(c, "tabs.create") :
        trace[c][i].ret # "pending" =>
            outcome[c] = "returned" /\ result[c] = res[c]

(* C11: a success response whose body is malformed (not JSON, null, or   *)
(* without a usable status) ends the loop on that attempt with the       *)
(* status unknown_error: no timer and no fetch follow it                 *)
Later(c, i, e) == {j \in Idx(c, e) : j > i}

C11_MalformedIsTerminal ==
    \A c \in DOMAIN pc : \A i \in Idx(c, "response.json") :
        trace[c][i].ret # "pending" =>
            /\ Later(c, i, "setTimeout") = {}
            /\ Later(c, i, "fetch") = {}
            /\ ~ValidBody(data[c]) => res[c].status = Str("unknown_error")

(* C12: checkAppPass calls nothing but permissions.contains, fetch on    *)
(* the status URL, response.json and setTimeout, and with permission     *)
(* present it returns what checkStatus returned: once checkStatus has    *)
(* returned, checkAppPass is resuming from the await or has returned     *)
ReadOnlyEvents == {"permissions.contains", "fetch", "response.json", "setTimeout"}

C12_CheckIsReadOnly ==
    \A c \in DOMAIN pc :
        op[c] = "checkAppPass" =>
            /\ \A i \in 1..Len(trace[c]) : trace[c][i].ev \in ReadOnlyEvents
            /\ \A i \in Idx(c, "fetch") : trace[c][i].url = StatusUrl
            /\ (outcome[c] = "returned" /\ trace[c][1].ret = "true")
                   => result[c] = res[c] /\ res[c] # NoResult
            /\ (res[c] # NoResult) =>
                 /\ pc[c] \in {"cs_returned", "done"}
                 /\ pc[c] = "done" => outcome[c] = "returned"

C12_Witness ==
    \E c \in DOMAIN pc :
        /\ op[c] = "checkAppPass"
        /\ outcome[c] = "returned"
        /\ Count(c, "fetch") = 2
        /\ Count(c, "setTimeout") = 1
        /\ result[c].status = Str("ok")

(* C13: every returned result whose status is not ok has a message *)
C13_MessageWhenNotOk ==
    \A c \in DOMAIN pc :
        (outcome[c] = "returned" /\ result[c].status # Str("ok"))
            => Populated(result[c], "message")

(* C14: a response whose code is outside 200..299 is a failed attempt:   *)
(* its body is not read, a timer and then a new fetch follow it when it  *)
(* is attempt 1 or 2, and the err result follows it when it is attempt 3 *)
FetchNumber(c, i) == Cardinality({j \in Idx(c, "fetch") : j <= i})
IsNon2xx(e) == e.ev = "fetch" /\ e.code # 0 /\ ~(e.code >= 200 /\ e.code <= 299)

C14_Only2xxTerminal ==
    \A c \in DOMAIN pc : \A i \in Idx(c, "fetch") :
        IsNon2xx(trace[c][i]) =>
            /\ trace[c][i].ret = "not_ok"
            /\ IF FetchNumber(c, i) < 3
               THEN /\ Len(trace[c]) > i
                    /\ trace[c][i + 1].ev = "setTimeout"
                    /\ trace[c][i + 1].ms = BackoffMs
                    /\ Len(trace[c]) > i + 1 => trace[c][i + 2].ev = "fetch"
                    /\ trace[c][i + 1].ret = "fired" => Len(trace[c]) > i + 1
               ELSE /\ Later(c, i, "fetch") = {}
                    /\ Later(c, i, "setTimeout") = {}
                    /\ Later(c, i, "response.json") = {}
                    /\ res[c] = ErrResult

C14_Witness ==
    \E c \in DOMAIN pc :
        /\ Count(c, "fetch") = 3
        /\ trace[c][NthFetch(c, 1)].code = 404
        /\ trace[c][NthFetch(c, 2)].code = 500
        /\ trace[c][NthFetch(c, 3)].code = 404
        /\ pc[c] = "done"

(* C15: attempt n is the n-th fetch, n in 1..3; there are at most 3      *)
(* fetches and 2 timers; a timer is set only right after a failed        *)
(* attempt n < 3 and the next call after it is the fetch of attempt n+1; *)
(* nothing follows a parsed success response inside the loop             *)
InLoop(c) == pc[c] \in {"cs_fetch", "cs_json", "cs_timer"}
FailedEvent(e) ==
    \/ e.ev = "fetch" /\ e.ret \in {"throw", "not_ok"}
    \/ e.ev = "response.json" /\ e.ret \in {"throw", "null"}

C15_AttemptsAndWaits ==
    \A c \in DOMAIN pc :
        /\ Count(c, "fetch") <= 3
        /\ Count(c, "setTimeout") <= 2
        /\ InLoop(c) => attempt[c] \in 1..3 /\ attempt[c] = Count(c, "fetch")
        /\ \A i \in Idx(c, "setTimeout") :
             /\ i > 1
             /\ FailedEvent(trace[c][i - 1])
             /\ FetchNumber(c, i) < 3
             /\ trace[c][i].ms = BackoffMs
             /\ Len(trace[c]) > i =>
                  /\ trace[c][i + 1].ev = "fetch"
                  /\ FetchNumber(c, i + 1) = FetchNumber(c, i) + 1
        /\ \A i \in Idx(c, "response.json") :
             trace[c][i].ret = "value" =>
                 Later(c, i, "setTimeout") = {} /\ Later(c, i, "fetch") = {}
        /\ Count(c, "fetch") = 3 => Later(c, NthFetch(c, 3), "setTimeout") = {}

C15_Witness ==
    \E c \in DOMAIN pc :
        /\ Count(c, "fetch") = 3
        /\ Count(c, "setTimeout") = 2
        /\ trace[c][NthFetch(c, 3)].ret = "throw"
        /\ pc[c] = "done"
        /\ op[c] = "checkAppPass"

(* C16: with permissions.request granted, activateAppPass calls          *)
(* tabs.create exactly once for every value checkStatus returns, when it *)
(* resumes from the await of checkStatus: after every other call of the  *)
(* invocation has settled and before it returns                          *)
C16_Granted(c) == op[c] = "activateAppPass" /\ trace[c][1].ret = "true"

C16_OneTabAfterProbe ==
    \A c \in DOMAIN pc :
        C16_Granted(c) =>
            /\ res[c] = NoResult => Count(c, "tabs.create") = 0
            /\ res[c] # NoResult =>
                 /\ \A i \in 1..(Len(trace[c]) - 1) : trace[c][i].ret # "pending"
                 /\ IF pc[c] = "cs_returned"
                    THEN /\ Count(c, "tabs.create") = 0
                         /\ trace[c][Len(trace[c])].ret # "pending"
                    ELSE /\ Count(c, "tabs.create") = 1
                         /\ trace[c][Len(trace[c])].ev = "tabs.create"
            /\ outcome[c] = "returned" =>
                 /\ Count(c, "tabs.create") = 1
                 /\ trace[c][Len(trace[c])].ret = "ok"

C16_Witness ==
    \E c \in DOMAIN pc :
        /\ C16_Granted(c)
        /\ res[c] = ErrResult
        /\ Count(c, "tabs.create") = 1
        /\ outcome[c] = "returned"

(* C17: whenever activateAppPass returns {no_perm, Permission denied},   *)
(* no tab has been opened in that invocation                             *)
C17_ReturnsNoPerm(c) ==
    /\ op[c] = "activateAppPass"
    /\ outcome[c] = "returned"
    /\ result[c] = NoPermResult

C17_NoTabWhenNoPerm ==
    \A c \in DOMAIN pc : C17_ReturnsNoPerm(c) => Count(c, "tabs.create") = 0

(* C17 as amended: when activateAppPass returns {no_perm, Permission     *)
(* denied} no fetch was made; no tab was opened when the request was     *)
(* declined, and exactly one tab was opened when the request was granted *)
(* and the containment query of checkStatus returned false               *)
C17_TabIffGranted ==
    \A c \in DOMAIN pc :
        C17_ReturnsNoPerm(c) =>
            /\ Count(c, "fetch") = 0
            /\ trace[c][1].ret = "false" =>
                 Count(c, "tabs.create") = 0 /\ Len(trace[c]) = 1
            /\ trace[c][1].ret # "false" =>
                 /\ trace[c][1].ret = "true"
                 /\ trace[c][2].ev = "permissions.contains"
                 /\ trace[c][2].ret = "false"
                 /\ Count(c, "tabs.create") = 1

C17_Witness ==
    \E c \in DOMAIN pc :
        /\ C17_ReturnsNoPerm(c)
        /\ trace[c][1].ret = "true"
        /\ Count(c, "tabs.create") = 1

(* C18: when every awaited host call eventually settles, every          *)
(* invocation that was called eventually completes                       *)
C18_EventuallyCompletes ==
    \A c \in Calls : (pc[c] # "idle") ~> (pc[c] = "done")

C18_Witness ==
    \E c \in DOMAIN pc :
        /\ pc[c] = "done"
        /\ op[c] = "activateAppPass"
        /\ Count(c, "fetch") = 3
        /\ \A i \in Idx(c, "fetch") : trace[c][i].ret \in {"throw", "not_ok"}
        /\ Count(c, "tabs.create") = 1

(* C19: under every interleaving of two invocations, the calls an       *)
(* invocation made, the way it ended and the value it returned are those *)
(* of the same operation run alone on the outcomes delivered to it, and  *)
(* the two invocations together make at most 6 fetches                   *)

(* what was delivered to invocation c: the settlements, in order *)
Delivered(c) ==
    [i \in 1..Len(trace[c]) |-> [ret |-> trace[c][i].ret, code |-> trace[c][i].code]]
Made(c) == [i \in 1..Len(trace[c]) |-> trace[c][i].ev]
At(in, i) == IF i <= Len(in) THEN in[i] ELSE [ret |-> "missing", code |-> 0]

FalsyStatuses == {Undefined, JNull, Num("0"), Str("")}
AloneFields(d) ==
    [status |-> IF d.status \in FalsyStatuses THEN Str("unknown_error") ELSE d.status,
     message |-> d.message, email |-> d.email, appPassToken |-> d.appPassToken]
AloneErr == [status |-> Str("err"), message |-> Str("Failed to connect to server")]
AloneNoPerm == [status |-> Str("no_perm"), message |-> Str("Permission denied")]

(* the retry loop alone, from attempt a whose fetch settles with in[i] *)
RECURSIVE AloneLoop(_, _, _, _)
AloneLoop(in, i, a, d) ==
    LET f == At(in, i)
        is2xx == f.ret # "throw" /\ f.code >= 200 /\ f.code <= 299
        head == IF is2xx THEN <<"fetch", "response.json">> ELSE <<"fetch">>
        used == Len(head)
    IN  IF is2xx /\ At(in, i + 1).ret = "value"
        THEN [evs |-> head, res |-> AloneFields(d)]
        ELSE IF a < 3
        THEN LET rest == AloneLoop(in, i + used + 1, a + 1, d)
             IN  [evs |-> head \o <<"setTimeout">> \o rest.evs, res |-> rest.res]
        ELSE [evs |-> head, res |-> AloneErr]

(* the prober alone: its containment query settles with in[i] *)
AloneProbe(in, i, d) ==
    IF At(in, i).ret = "true"
    THEN LET l == AloneLoop(in, i + 1, 1, d)
         IN  [evs |-> <<"permissions.contains">> \o l.evs, res |-> l.res, threw |-> FALSE]
    ELSE [evs |-> <<"permissions.contains">>, res |-> AloneNoPerm,
          threw |-> At(in, i).ret # "false"]

Alone(o, in, d) ==
    LET first == IF o = "checkAppPass" THEN "permissions.contains"
                 ELSE "permissions.request"
        p == AloneProbe(in, 2, d)
    IN  IF At(in, 1).ret = "false"
        THEN [evs |-> <<first>>, outcome |-> "returned", result |-> AloneNoPerm]
        ELSE IF At(in, 1).ret # "true"
        THEN [evs |-> <<first>>, outcome |-> "threw", result |-> NoResult]
        ELSE IF p.threw
        THEN [evs |-> <<first>> \o p.evs, outcome |-> "threw", result |-> NoResult]
        ELSE IF o = "checkAppPass"
        THEN [evs |-> <<first>> \o p.evs, outcome |-> "returned", result |-> p.res]
        ELSE IF At(in, Len(p.evs) + 2).ret = "ok"
        THEN [evs |-> <<first>> \o p.evs \o <<"tabs.create">>,
              outcome |-> "returned", result |-> p.res]
        ELSE [evs |-> <<first>> \o p.evs \o <<"tabs.create">>,
              outcome |-> "threw", result |-> NoResult]

RECURSIVE TotalFetches(_)
TotalFetches(cs) ==
    IF cs = {} THEN 0
    ELSE LET c == CHOOSE x \in cs : TRUE
         IN  Count(c, "fetch") + TotalFetches(cs \ {c})

C19_ConcurrentCallsIndependent ==
    /\ TotalFetches(DOMAIN pc) <= 2 * maxAttempts
    /\ \A c \in DOMAIN pc :
         pc[c] = "done" =>
             LET a == Alone(op[c], Delivered(c), data[c])
             IN  /\ Made(c) = a.evs
                 /\ outcome[c] = a.outcome
                 /\ result[c] = a.result

C19_Witness ==
    /\ pc["c1"] = "done" /\ pc["c2"] = "done"
    /\ Count("c1", "fetch") = 3 /\ Count("c2", "fetch") = 3
    /\ result["c1"].status = Str("ok")
    /\ result["c2"] = ErrResult

====
